---- MODULE Spec2Model ----
(***************************************************************************)
(* A model of the rchain ledger (src/src/rchain/mod.rs): blocks are built  *)
(* with Block::new / add_transaction / set_nonce, admitted with            *)
(* Blockchain::append_block, executed with Transaction::execute against    *)
(* the account map, and audited with Blockchain::check_validity.           *)
(*                                                                         *)
(* Abstractions.                                                           *)
(*  - u128 is scaled to TokenBits bits; all arithmetic keeps that width.   *)
(*  - A Blake2b digest is modelled as the tagged tuple of the bytes fed to *)
(*    the hasher, i.e. as a collision-free hash.                           *)
(*  - Option<T> is a sequence of length 0 (None) or 1 (Some).              *)
(*  - `account.tokens += amount` overflows according to the build profile: *)
(*    with overflow checks it panics, without them it wraps.  The profile  *)
(*    is chosen once, in Init.                                             *)
(***************************************************************************)
EXTENDS Integers, Sequences, FiniteSets, TLC

VARIABLES
    blocks,           \* Blockchain.blocks
    accounts,         \* Blockchain.accounts
    cur,              \* Option<Block>: the block the caller is building
    overflow_checks,  \* build profile: TRUE = overflow panics, FALSE = wraps
    aborted,          \* the process has panicked
    last              \* ghost: the last operation, its inputs and its result

vars == <<blocks, accounts, cur, overflow_checks, aborted, last>>

-----------------------------------------------------------------------------
\* Bounds of the model.

TokenBits == 2        \* width of the token type (u128 in the source)
MaxTx == 2            \* transactions per block the caller builds
MaxChain == 2         \* blocks submitted to a chain of at most MaxChain - 1

Modulus == 2 ^ TokenBits
MaxTokens == Modulus - 1

Ids == {"alice", "bob"}
Amounts == {1, MaxTokens}
TxNonces == {0}
Times == {0}
BlockNonces == {0, 1}

-----------------------------------------------------------------------------
\* Option<T>

None == <<>>
Some(x) == <<x>>
is_some(o) == Len(o) = 1
unwrap(o) == o[1]

-----------------------------------------------------------------------------
\* Data

Account_new(account_type) ==
    [tokens |-> 0, acc_type |-> account_type, store |-> <<>>]

CreateUserAccount(id) == [type |-> "CreateUserAccount", account |-> id]
ChangeStoreValue(k, v) == [type |-> "ChangeStoreValue", key |-> k, value |-> v]
TransferTokens(to, amount) == [type |-> "TransferTokens", to |-> to, amount |-> amount]
CreateTokens(receiver, amount) ==
    [type |-> "CreateTokens", receiver |-> receiver, amount |-> amount]

TransactionData ==
    {CreateUserAccount(id) : id \in Ids}
    \cup {ChangeStoreValue("k", "v")}
    \cup {TransferTokens(to, a) : to \in Ids, a \in Amounts}
    \cup {CreateTokens(r, a) : r \in Ids, a \in Amounts}

Transaction_new(from, transaction_data, nonce, now) ==
    [from |-> from, nonce |-> nonce, record |-> transaction_data,
     created_at |-> now, signature |-> None]

Transactions ==
    {Transaction_new(f, d, n, t) :
        f \in Ids, d \in TransactionData, n \in TxNonces, t \in Times}

Block_new(prev_hash) ==
    [nonce |-> 0, hash |-> None, prev_hash |-> prev_hash, transactions |-> <<>>]

-----------------------------------------------------------------------------
\* Hashing

\* Blake2b over the bytes fed to the hasher (collision-free abstraction).
Blake2b(input) == [blake2b |-> input]

\* Every byte becomes one char: an injective rendering of the digest.
byte_vector_to_string(arr) == [chars |-> arr.blake2b]

\* Mutant: the record is left out of the hashed tuple.
Transaction_calculate_hash_without_record(tx) ==
    Blake2b(<<tx.created_at, tx.from, tx.nonce>>)

\* The signature is not part of the hashed tuple.
Transaction_calculate_hash(tx) ==
    Blake2b(<<tx.created_at, tx.record, tx.from, tx.nonce>>)

Block_calculate_hash(block) ==
    Blake2b(<<[i \in 1..Len(block.transactions) |->
                  Transaction_calculate_hash(block.transactions[i])],
              <<block.prev_hash, block.nonce>>>>)

update_hash(block) ==
    [block EXCEPT !.hash = Some(byte_vector_to_string(Block_calculate_hash(block)))]

verify_own_hash(block) ==
    /\ is_some(block.hash)
    /\ unwrap(block.hash) = byte_vector_to_string(Block_calculate_hash(block))

set_nonce(block, nonce) == update_hash([block EXCEPT !.nonce = nonce])

\* Mutant: the transaction is pushed without the update_hash() of line 331.
add_transaction_without_update(block, transaction) ==
    [block EXCEPT !.transactions = Append(@, transaction)]

add_transaction(block, transaction) ==
    update_hash([block EXCEPT !.transactions = Append(@, transaction)])

get_transaction_count(block) == Len(block.transactions)

is_signed(tx) == is_some(tx.signature)

\* Mutant: a signature that is present is accepted.
check_signature_accepts(tx) == is_signed(tx)

check_signature(tx) == IF ~is_signed(tx) THEN FALSE ELSE FALSE

-----------------------------------------------------------------------------
\* Transaction::execute

NoErr == [kind |-> "Ok", code |-> ""]
Err(kind, code) == [kind |-> kind, code |-> code]
PanicErr == [kind |-> "Panic", code |-> "attempt to add with overflow"]

Ret(ws, err) == [ws |-> ws, err |-> err]

\* Mutant: HashMap::insert without the membership test.
create_account_replaces(ws, id, account_type) ==
    Ret([a \in DOMAIN ws \cup {id} |->
            IF a = id THEN Account_new(account_type) ELSE ws[a]], NoErr)

create_account(ws, id, account_type) ==
    IF id \notin DOMAIN ws
    THEN Ret([a \in DOMAIN ws \cup {id} |->
                 IF a = id THEN Account_new(account_type) ELSE ws[a]], NoErr)
    ELSE Ret(ws, Err("AccountExists", "934823094"))

\* Mutant: wrapping_add in place of checked_add.
checked_add_wrapping(a, b) == Some((a + b) % Modulus)

\* u128::checked_add / checked_sub
checked_add(a, b) == IF a + b > MaxTokens THEN None ELSE Some(a + b)
checked_sub(a, b) == IF a - b < 0 THEN None ELSE Some(a - b)

\* `account.tokens += *amount` (line 394)
add_assign(ws, id, amount) ==
    IF ws[id].tokens + amount > MaxTokens
    THEN IF overflow_checks
         THEN Ret(ws, PanicErr)
         ELSE Ret([ws EXCEPT ![id].tokens = (@ + amount) % Modulus], NoErr)
    ELSE Ret([ws EXCEPT ![id].tokens = @ + amount], NoErr)

execute_CreateTokens(tx, ws, is_initial) ==
    IF ~is_initial
    THEN Ret(ws, Err("NotInitialPhase", "2394233"))
    ELSE IF tx.record.receiver \in DOMAIN ws
         THEN add_assign(ws, tx.record.receiver, tx.record.amount)
         ELSE Ret(ws, Err("UnknownReceiver", "23482309"))

\* Mutant: the sender is debited before the receiver's new balance is
\* validated.
execute_TransferTokens_interleaved(tx, ws) ==
    IF tx.record.to \notin DOMAIN ws
    THEN Ret(ws, Err("UnknownReceiver", "3242342380"))
    ELSE IF tx.from \notin DOMAIN ws
    THEN Ret(ws, Err("UnknownSender", "23423923"))
    ELSE LET balance_recv_new == checked_add(ws[tx.record.to].tokens, tx.record.amount)
             balance_sender_new == checked_sub(ws[tx.from].tokens, tx.record.amount)
         IN IF ~is_some(balance_sender_new)
            THEN Ret(ws, Err("ArithmeticFault", "48239084203"))
            ELSE LET ws1 == [ws EXCEPT ![tx.from].tokens = unwrap(balance_sender_new)]
                 IN IF ~is_some(balance_recv_new)
                    THEN Ret(ws1, Err("ArithmeticFault", "48239084203"))
                    ELSE Ret([ws1 EXCEPT ![tx.record.to].tokens =
                                             unwrap(balance_recv_new)], NoErr)

execute_TransferTokens(tx, ws) ==
    IF tx.record.to \notin DOMAIN ws
    THEN Ret(ws, Err("UnknownReceiver", "3242342380"))
    ELSE IF tx.from \notin DOMAIN ws
    THEN Ret(ws, Err("UnknownSender", "23423923"))
    ELSE LET recv_tokens == ws[tx.record.to].tokens
             sender_tokens == ws[tx.from].tokens
             balance_recv_new == checked_add(recv_tokens, tx.record.amount)
             balance_sender_new == checked_sub(sender_tokens, tx.record.amount)
         IN IF is_some(balance_recv_new) /\ is_some(balance_sender_new)
            THEN LET ws1 == [ws EXCEPT ![tx.from].tokens = unwrap(balance_sender_new)]
                     ws2 == [ws1 EXCEPT ![tx.record.to].tokens = unwrap(balance_recv_new)]
                 IN Ret(ws2, NoErr)
            ELSE Ret(ws, Err("ArithmeticFault", "48239084203"))

\* Mutant: ChangeStoreValue is carried out on the sender's store.
execute_stores_value(tx, ws, is_initial) ==
    IF tx.from \notin DOMAIN ws /\ ~is_initial
    THEN Ret(ws, Err("UnknownSender", "93482390"))
    ELSE CASE tx.record.type = "CreateUserAccount" ->
                create_account(ws, tx.record.account, "User")
           [] tx.record.type = "CreateTokens" ->
                execute_CreateTokens(tx, ws, is_initial)
           [] tx.record.type = "TransferTokens" ->
                execute_TransferTokens(tx, ws)
           [] OTHER ->
                IF tx.from \in DOMAIN ws
                THEN Ret([ws EXCEPT ![tx.from].store =
                              <<[key |-> tx.record.key, value |-> tx.record.value]>>],
                         NoErr)
                ELSE Ret(ws, Err("UnknownSender", "23423923"))

execute(tx, ws, is_initial) ==
    IF tx.from \notin DOMAIN ws /\ ~is_initial
    THEN Ret(ws, Err("UnknownSender", "93482390"))
    ELSE CASE tx.record.type = "CreateUserAccount" ->
                create_account(ws, tx.record.account, "User")
           [] tx.record.type = "CreateTokens" ->
                execute_CreateTokens(tx, ws, is_initial)
           [] tx.record.type = "TransferTokens" ->
                execute_TransferTokens(tx, ws)
           [] OTHER ->
                Ret(ws, Err("UnsupportedTransactionType", "487289724389"))

-----------------------------------------------------------------------------
\* Blockchain

len(bs) == Len(bs)

get_last_block_hash(bs) == IF len(bs) = 0 THEN None ELSE bs[len(bs)].hash

\* One record of the ghost log of execute calls made by a handler.
Call(tx, is_initial, before, r) ==
    [tx |-> tx, is_initial |-> is_initial, before |-> before,
     after |-> r.ws, err |-> r.err]

\* The loop of lines 189-200; i is the 0-based index of enumerate().
\* failed is 0, or the number i + 1 put into the error message.
RECURSIVE run_transactions(_, _, _, _)
run_transactions(txs, i, ws, is_genesis) ==
    IF i >= Len(txs)
    THEN [ws |-> ws, failed |-> 0, err |-> NoErr, calls |-> <<>>]
    ELSE LET r == execute(txs[i + 1], ws, is_genesis)
             c == Call(txs[i + 1], is_genesis, ws, r)
         IN IF r.err.kind # "Ok"
            THEN [ws |-> r.ws, failed |-> i + 1, err |-> r.err, calls |-> <<c>>]
            ELSE LET rest == run_transactions(txs, i + 1, r.ws, is_genesis)
                 IN [rest EXCEPT !.calls = <<c>> \o @]

Outcome(bs, accs, kind, index, cause, calls) ==
    [blocks |-> bs, accounts |-> accs,
     result |-> [kind |-> kind, index |-> index, cause |-> cause],
     calls |-> calls]

\* Mutant: every block is treated as the genesis block.
is_genesis_always(bs) == TRUE

\* Mutant: the block after the genesis block still counts as initial.
is_genesis_first_two(bs) == len(bs) <= 1

\* let is_genesis = self.len() == 0;
is_genesis_of(bs) == len(bs) = 0

\* Mutant: the link of the submitted block is not compared.
link_matches_any(block, bs) == TRUE

\* block.prev_hash == self.get_last_block_hash()
link_matches(block, bs) == block.prev_hash = get_last_block_hash(bs)

\* Mutant: the link is checked before the fingerprint.
structural_check_link_first(bs, block) ==
    IF ~(block.prev_hash = get_last_block_hash(bs)) THEN Err("BrokenLink", "3948230")
    ELSE IF ~verify_own_hash(block) THEN Err("HashMismatch", "93820394")
    ELSE IF get_transaction_count(block) = 0 THEN Err("EmptyBlock", "9482930")
    ELSE NoErr

\* Mutant: the replay check left as a TODO at lines 179-180 is implemented
\* for repeated transactions of one block.
structural_check_rejects_replay(bs, block) ==
    IF ~verify_own_hash(block) THEN Err("HashMismatch", "93820394")
    ELSE IF ~(block.prev_hash = get_last_block_hash(bs)) THEN Err("BrokenLink", "3948230")
    ELSE IF get_transaction_count(block) = 0 THEN Err("EmptyBlock", "9482930")
    ELSE IF \E i, j \in 1..Len(block.transactions) :
               /\ i < j
               /\ Transaction_calculate_hash(block.transactions[i])
                     = Transaction_calculate_hash(block.transactions[j])
         THEN Err("NonceReused", "")
    ELSE NoErr

\* The checks of lines 163-177, in the order of the code.
structural_check(bs, block) ==
    IF ~verify_own_hash(block) THEN Err("HashMismatch", "93820394")
    ELSE IF ~link_matches(block, bs) THEN Err("BrokenLink", "3948230")
    ELSE IF get_transaction_count(block) = 0 THEN Err("EmptyBlock", "9482930")
    ELSE NoErr

\* Mutant: the snapshot is not restored.
recover_keeps_partial(old_state, run) == run.ws

\* self.accounts = old_state;
recover(old_state, run) == old_state

\* Mutant: the new block overwrites the last stored block.
push_replaces_last(bs, block) ==
    IF Len(bs) = 0 THEN <<block>> ELSE [bs EXCEPT ![Len(bs)] = block]

\* self.blocks.push(block);
push(bs, block) == Append(bs, block)

\* Blockchain::append_block as a function of the chain, the accounts and the
\* submitted block.
append_block_fn(bs, accs, block) ==
    LET is_genesis == is_genesis_of(bs)
        checked == structural_check(bs, block)
    IN IF checked.kind # "Ok"
       THEN Outcome(bs, accs, checked.kind, 0, checked, <<>>)
       ELSE LET old_state == accs
                run == run_transactions(block.transactions, 0, accs, is_genesis)
            IN IF run.err.kind = "Panic"
               THEN Outcome(bs, run.ws, "Panic", run.failed, run.err, run.calls)
               ELSE IF run.failed # 0
               THEN Outcome(bs, recover(old_state, run), "TransactionFailed",
                            run.failed, run.err, run.calls)
               ELSE Outcome(push(bs, block), run.ws, "Ok", 0, NoErr, run.calls)

-----------------------------------------------------------------------------
\* Blockchain::check_validity

Verdict(kind, at, block, tx, expected, actual) ==
    [kind |-> kind, at |-> at, block |-> block, tx |-> tx,
     expected |-> expected, actual |-> actual]

ValidVerdict == Verdict("Ok", 0, 0, 0, None, None)

\* The inner loop of lines 259-267; j is the 0-based transaction_num.
\* The result is 0 or transaction_num + 1 of the first offending transaction.
RECURSIVE first_bad_signature(_, _)
first_bad_signature(txs, j) ==
    IF j >= Len(txs) THEN 0
    ELSE IF is_signed(txs[j + 1]) /\ ~check_signature(txs[j + 1]) THEN j + 1
    ELSE first_bad_signature(txs, j + 1)

\* Mutant: the link between stored blocks is not compared.
linked_any(block, prev) == TRUE

\* &block.prev_hash == &self.blocks[block_num - 1].hash
linked(block, prev) == block.prev_hash = prev.hash

\* Mutant: the signatures of a block are checked before its fingerprint and
\* its link.
RECURSIVE check_validity_signatures_first(_, _)
check_validity_signatures_first(bs, block_num) ==
    IF block_num >= Len(bs) THEN ValidVerdict
    ELSE LET block == bs[block_num + 1]
             sig == first_bad_signature(block.transactions, 0)
         IN IF sig # 0
            THEN Verdict("InvalidSignature", block_num, block_num + 1, sig, None, None)
            ELSE IF ~verify_own_hash(block)
            THEN Verdict("StoredHashMismatch", block_num, block_num + 1, 0, None, None)
            ELSE IF block_num = 0 /\ is_some(block.prev_hash)
            THEN Verdict("GenesisHasParent", block_num, 0, 0, None, None)
            ELSE IF block_num # 0 /\ ~is_some(block.prev_hash)
            THEN Verdict("BrokenLink", block_num, block_num + 1, 0, None, None)
            ELSE IF block_num # 0 /\ ~linked(block, bs[block_num])
            THEN Verdict("BrokenLink", block_num, block_num,  0,
                         block.prev_hash, bs[block_num].hash)
            ELSE check_validity_signatures_first(bs, block_num + 1)

\* The loop of lines 226-268 from the 0-based block_num on.  `at` is the
\* value of block_num when the function returns, `block` the number the
\* message prints.
RECURSIVE check_validity_from(_, _)
check_validity_from(bs, block_num) ==
    IF block_num >= Len(bs) THEN ValidVerdict
    ELSE LET block == bs[block_num + 1]
             sig == first_bad_signature(block.transactions, 0)
         IN IF ~verify_own_hash(block)
            THEN Verdict("StoredHashMismatch", block_num, block_num + 1, 0, None, None)
            ELSE IF block_num = 0 /\ is_some(block.prev_hash)
            THEN Verdict("GenesisHasParent", block_num, 0, 0, None, None)
            ELSE IF block_num # 0 /\ ~is_some(block.prev_hash)
            THEN Verdict("BrokenLink", block_num, block_num + 1, 0, None, None)
            ELSE IF block_num # 0 /\ ~linked(block, bs[block_num])
            THEN Verdict("BrokenLink", block_num, block_num, 0,
                         block.prev_hash, bs[block_num].hash)
            ELSE IF sig # 0
            THEN Verdict("InvalidSignature", block_num, block_num + 1, sig, None, None)
            ELSE check_validity_from(bs, block_num + 1)

\* Mutant: Ok(()) is returned inside the loop, after the first block.
check_validity_returns_early(bs) ==
    check_validity_from(SubSeq(bs, 1, IF Len(bs) = 0 THEN 0 ELSE 1), 0)

check_validity(bs) == check_validity_from(bs, 0)

-----------------------------------------------------------------------------
\* Ghost record of the last operation.

Builder(op) == [op |-> op]

-----------------------------------------------------------------------------
\* Actions

\* A fingerprint that belongs to no block the caller can build.
BogusHash == [chars |-> <<"bogus">>]

PrevChoices == {None, Some(BogusHash)} \cup {blocks[i].hash : i \in 1..Len(blocks)}

Init ==
    /\ blocks = <<>>
    /\ accounts = <<>>
    /\ cur = None
    /\ overflow_checks \in BOOLEAN
    /\ aborted = FALSE
    /\ last = Builder("Blockchain::new")

\* let mut block = Block::new(prev_hash)
NewBlock ==
    /\ ~aborted
    /\ cur = None
    /\ len(blocks) < MaxChain
    /\ \E p \in PrevChoices : cur' = Some(Block_new(p))
    /\ last' = Builder("Block::new")
    /\ UNCHANGED <<blocks, accounts, overflow_checks, aborted>>

\* block.add_transaction(Transaction::new(..))
AddTransaction ==
    /\ ~aborted
    /\ is_some(cur)
    /\ get_transaction_count(unwrap(cur)) < MaxTx
    /\ \E tx \in Transactions : cur' = Some(add_transaction(unwrap(cur), tx))
    /\ last' = Builder("add_transaction")
    /\ UNCHANGED <<blocks, accounts, overflow_checks, aborted>>

\* block.set_nonce(n)
SetNonce ==
    /\ ~aborted
    /\ is_some(cur)
    /\ \E n \in BlockNonces : cur' = Some(set_nonce(unwrap(cur), n))
    /\ last' = Builder("set_nonce")
    /\ UNCHANGED <<blocks, accounts, overflow_checks, aborted>>

\* bc.append_block(block): the block is moved into the call.
append_block ==
    /\ ~aborted
    /\ is_some(cur)
    /\ LET out == append_block_fn(blocks, accounts, unwrap(cur)) IN
          /\ blocks' = out.blocks
          /\ accounts' = out.accounts
          /\ aborted' = (out.result.kind = "Panic")
          /\ last' = [op |-> "append_block", block |-> unwrap(cur),
                      blocks |-> blocks, accounts |-> accounts,
                      result |-> out.result, calls |-> out.calls]
    /\ cur' = None
    /\ UNCHANGED overflow_checks

Next ==
    \/ NewBlock
    \/ AddTransaction
    \/ SetNonce
    \/ append_block

Spec == Init /\ [][Next]_vars

-----------------------------------------------------------------------------
\* Transaction::execute called directly on a world state (the method is
\* public and generic over WorldState).

AccountsOver(S) ==
    [S -> {[tokens |-> t, acc_type |-> "User", store |-> <<>>] : t \in 0..MaxTokens}]

WorldStates == UNION {AccountsOver(S) : S \in SUBSET Ids}

InitExec ==
    /\ blocks = <<>>
    /\ accounts \in WorldStates
    /\ cur = None
    /\ overflow_checks \in BOOLEAN
    /\ aborted = FALSE
    /\ last = Builder("Blockchain::new")

\* transaction.execute(&mut bc, &is_initial)
ExecuteTx ==
    /\ ~aborted
    /\ \E tx \in Transactions, is_initial \in BOOLEAN :
          LET r == execute(tx, accounts, is_initial) IN
          /\ accounts' = r.ws
          /\ aborted' = (r.err.kind = "Panic")
          /\ last' = [op |-> "execute", tx |-> tx, is_initial |-> is_initial,
                      before |-> accounts, err |-> r.err]
    /\ UNCHANGED <<blocks, cur, overflow_checks>>

NextExec == ExecuteTx

SpecExec == InitExec /\ [][NextExec]_vars

-----------------------------------------------------------------------------
\* In-place tampering with a stored block (main.rs, Attack I and Attack II):
\* one record of one stored block is overwritten, and the block's stored
\* fingerprint is optionally recomputed afterwards.  As in main.rs the attack
\* is mounted on the chain as the last accepted block left it, and the
\* attacked chain is not extended afterwards.

Untampered == last.op \notin {"tamper", "update_hash"}

Accepted == last.op = "append_block" /\ last.result.kind = "Ok"

\* bc.blocks[k].transactions[j].record = record
TamperRecord ==
    /\ Accepted
    /\ \E k \in 1..Len(blocks) :
       \E j \in 1..Len(blocks[k].transactions) :
       \E record \in TransactionData :
          /\ record # blocks[k].transactions[j].record
          /\ blocks' = [blocks EXCEPT ![k].transactions[j].record = record]
          /\ last' = [op |-> "tamper", k |-> k, j |-> j, blocks |-> blocks]
    /\ UNCHANGED <<accounts, cur, overflow_checks, aborted>>

\* bc.blocks[k].update_hash()
UpdateHash ==
    /\ Accepted \/ last.op = "tamper"
    /\ \E k \in 1..Len(blocks) :
          /\ blocks' = [blocks EXCEPT ![k] = update_hash(@)]
          /\ last' = [op |-> "update_hash", k |-> k, blocks |-> blocks,
                      tampered |-> IF last.op = "tamper" THEN last.k ELSE 0]
    /\ UNCHANGED <<accounts, cur, overflow_checks, aborted>>

NextTamper ==
    \/ Untampered /\ Next
    \/ TamperRecord
    \/ UpdateHash

SpecTamper == Init /\ [][NextTamper]_vars

-----------------------------------------------------------------------------
\* The chain after a genesis block built as in main.rs (lines 12-30): both
\* users are created and alice is funded; the last transaction either funds
\* bob, as in main.rs, or already transfers a token from alice to bob (the
\* transfer of lines 36-39).  Blocks submitted to the chain may also hold
\* transactions that carry a signature.

GenesisBlock(a, t) ==
    add_transaction(add_transaction(add_transaction(add_transaction(
        Block_new(None),
        Transaction_new("alice", CreateUserAccount("alice"), 0, 0)),
        Transaction_new("alice", CreateTokens("alice", a), 0, 0)),
        Transaction_new("bob", CreateUserAccount("bob"), 0, 0)),
        t)

GenesisLast ==
    {Transaction_new("bob", CreateTokens("bob", b), 0, 0) : b \in Amounts}
      \cup {Transaction_new("alice", TransferTokens("bob", 1), 0, 0)}

InitFunded ==
    \E a \in Amounts, b \in GenesisLast :
        LET out == append_block_fn(<<>>, <<>>, GenesisBlock(a, b)) IN
        /\ blocks = out.blocks
        /\ accounts = out.accounts
        /\ cur = None
        /\ overflow_checks \in BOOLEAN
        /\ aborted = FALSE
        /\ last = [op |-> "append_block", block |-> GenesisBlock(a, b),
                   blocks |-> <<>>, accounts |-> <<>>,
                   result |-> out.result, calls |-> out.calls]

\* A transaction whose signature field is set.
signed(tx) == [tx EXCEPT !.signature = Some("sig")]

\* block.add_transaction(tx) for a transaction that carries a signature
AddSignedTransaction ==
    /\ ~aborted
    /\ is_some(cur)
    /\ get_transaction_count(unwrap(cur)) < MaxTx
    /\ \E tx \in Transactions : cur' = Some(add_transaction(unwrap(cur), signed(tx)))
    /\ last' = Builder("add_transaction")
    /\ UNCHANGED <<blocks, accounts, overflow_checks, aborted>>

NextFunded ==
    \/ Next
    \/ AddSignedTransaction

SpecFunded == InitFunded /\ [][NextFunded]_vars

-----------------------------------------------------------------------------
\* check_validity applied to a chain value.  The fields of stored blocks can
\* be replaced in place (main.rs, Attack I and II, and Block's public
\* methods on a stored block), so a stored block may have an absent or
\* outdated fingerprint and any prev_hash; the chains below range over
\* these values, and over transactions with and without a signature.

AuditTx == Transaction_new("alice", CreateUserAccount("alice"), 0, 0)

AuditTxSeqs ==
    UNION {[1..n -> {AuditTx, signed(AuditTx)}] : n \in 1..MaxTx}

\* The stored blocks that can follow the chain bs.
AuditBlocks(bs) ==
    {LET b == [transactions |-> txs, prev_hash |-> prev, hash |-> None,
               nonce |-> 0]
     IN  IF h = "absent" THEN b
         ELSE IF h = "outdated" THEN [b EXCEPT !.hash = Some(BogusHash)]
         ELSE update_hash(b) :
       txs \in AuditTxSeqs,
       prev \in {None, Some(BogusHash), get_last_block_hash(bs)},
       h \in {"absent", "outdated", "current"}}

RECURSIVE AuditChains(_)
AuditChains(n) ==
    IF n = 0 THEN {<<>>}
    ELSE LET shorter == AuditChains(n - 1) IN
         shorter \cup
           UNION {{Append(bs, b) : b \in AuditBlocks(bs)} :
                    bs \in {c \in shorter : Len(c) = n - 1}}

InitAudit ==
    /\ blocks \in AuditChains(MaxChain)
    /\ accounts \in {<<>>, create_account(<<>>, "alice", "User").ws}
    /\ cur = None
    /\ overflow_checks \in BOOLEAN
    /\ aborted = FALSE
    /\ last = Builder("Blockchain::new")

\* bc.check_validity()
CheckValidity ==
    /\ last' = [op |-> "check_validity", verdict |-> check_validity(blocks),
                blocks |-> blocks, accounts |-> accounts]
    /\ UNCHANGED <<blocks, accounts, cur, overflow_checks, aborted>>

NextAudit == CheckValidity

SpecAudit == InitAudit /\ [][NextAudit]_vars

-----------------------------------------------------------------------------
\* Attack II of main.rs on the chain of main.rs: the genesis block funds
\* alice and bob, block 1 transfers from alice to bob (lines 36-41); then
\* one record of a stored block is replaced in place and the fingerprint
\* of a stored block is recomputed.  Amounts include 0, which u128 allows.

RewriteAmounts == {0, 1}

RewriteData ==
    TransactionData \cup {TransferTokens(to, 0) : to \in Ids}

Block2(bs, x) ==
    add_transaction(Block_new(get_last_block_hash(bs)),
                    Transaction_new("alice", TransferTokens("bob", x), 0, 0))

InitRewrite ==
    \E a \in Amounts, x \in RewriteAmounts :
    \E g \in {GenesisBlock(a, Transaction_new("bob", CreateTokens("bob", 1), 0, 0))} :
    \E first \in {append_block_fn(<<>>, <<>>, g)} :
    \E block2 \in {Block2(first.blocks, x)} :
    \E out \in {append_block_fn(first.blocks, first.accounts, block2)} :
           /\ blocks = out.blocks
           /\ accounts = out.accounts
           /\ cur = None
           /\ overflow_checks \in BOOLEAN
           /\ aborted = FALSE
           /\ last = [op |-> "append_block", block |-> block2,
                      blocks |-> first.blocks, accounts |-> first.accounts,
                      result |-> out.result, calls |-> out.calls]

\* bc.blocks[k].transactions[j].record = record
RewriteRecord ==
    /\ Accepted
    /\ \E k \in 1..Len(blocks) :
       \E j \in 1..Len(blocks[k].transactions) :
       \E record \in RewriteData :
          /\ record # blocks[k].transactions[j].record
          /\ blocks' = [blocks EXCEPT ![k].transactions[j].record = record]
          /\ last' = [op |-> "tamper", k |-> k, j |-> j, blocks |-> blocks]
    /\ UNCHANGED <<accounts, cur, overflow_checks, aborted>>

\* bc.blocks[k].update_hash() after the replacement
RehashRewritten ==
    /\ last.op = "tamper"
    /\ \E k \in 1..Len(blocks) :
          /\ blocks' = [blocks EXCEPT ![k] = update_hash(@)]
          /\ last' = [op |-> "update_hash", k |-> k, blocks |-> blocks,
                      tampered |-> last.k, original |-> last.blocks]
    /\ UNCHANGED <<accounts, cur, overflow_checks, aborted>>

NextRewrite ==
    \/ RewriteRecord
    \/ RehashRewritten

SpecRewrite == InitRewrite /\ [][NextRewrite]_vars

-----------------------------------------------------------------------------
\* Properties

AppendDone == last.op = "append_block"
ExecDone == last.op = "execute"
Failed(err) == err.kind \notin {"Ok", "Panic"}
SenderCheckErr == Err("UnknownSender", "93482390")

\* C1 - Atomic block admission: when a block passes the structural checks
\* and one of its transactions returns an error, append_block leaves the
\* accounts and the blocks as they were before the call, although earlier
\* transactions of the block were applied, and returns TransactionFailed
\* with the 1-based position of the first failing transaction and its cause.
C1_AtomicAdmission ==
    (AppendDone /\ \E i \in 1..Len(last.calls) : Failed(last.calls[i].err)) =>
        LET f == CHOOSE i \in 1..Len(last.calls) :
                    /\ Failed(last.calls[i].err)
                    /\ \A h \in 1..(i - 1) : ~Failed(last.calls[h].err)
        IN /\ accounts = last.accounts
           /\ blocks = last.blocks
           /\ last.result.kind = "TransactionFailed"
           /\ last.result.index = f
           /\ last.result.cause = last.calls[f].err
           /\ last.calls[f].tx = last.block.transactions[f]

\* A block whose first transaction changed the accounts and whose second
\* transaction is an overspending transfer was rejected with index 2.
C1_Witness ==
    /\ AppendDone
    /\ last.result.kind = "TransactionFailed"
    /\ last.result.index = 2
    /\ last.result.cause.kind = "ArithmeticFault"
    /\ last.calls[1].after # last.accounts
    /\ accounts = last.accounts

\* C2 - Chain validity is an invariant of admission: in every state reached
\* by building blocks and submitting them, check_validity succeeds, every
\* stored fingerprint equals the recomputed one, the first block has no
\* prev_hash and every later block's prev_hash is the stored fingerprint of
\* its predecessor.
C2_ChainValid ==
    /\ check_validity(blocks).kind = "Ok"
    /\ \A i \in 1..Len(blocks) :
          /\ is_some(blocks[i].hash)
          /\ unwrap(blocks[i].hash) = byte_vector_to_string(Block_calculate_hash(blocks[i]))
          /\ (i = 1 => blocks[i].prev_hash = None)
          /\ (i > 1 => blocks[i].prev_hash = blocks[i - 1].hash)

\* A second block was accepted onto the chain.
C2_Witness ==
    /\ Len(blocks) >= 2
    /\ AppendDone
    /\ last.result.kind = "Ok"
    /\ check_validity(blocks).kind = "Ok"

\* C3 - Append-only growth: every step that changes the chain is a
\* successful append_block, and a successful append_block makes the chain
\* the old chain followed by the submitted block exactly as the caller
\* built it; no step shortens the chain or changes an accepted block.
C3_AppendOnly ==
    [][/\ (blocks' # blocks =>
              /\ last'.op = "append_block"
              /\ last'.result.kind = "Ok")
       /\ (last'.op = "append_block" /\ last'.result.kind = "Ok" =>
              /\ is_some(cur)
              /\ blocks' = Append(blocks, unwrap(cur))
              /\ Len(blocks') = Len(blocks) + 1
              /\ \A i \in 1..Len(blocks) : blocks'[i] = blocks[i])
       /\ (last'.op = "append_block" /\ last'.result.kind # "Ok" =>
              blocks' = blocks)]_vars

\* A block was accepted onto a non-empty chain and stored as submitted.
C3_Witness ==
    /\ AppendDone
    /\ last.result.kind = "Ok"
    /\ Len(last.blocks) >= 1
    /\ blocks = Append(last.blocks, last.block)
    /\ blocks[1] = last.blocks[1]

\* C4 - Token balances never wrap and execution never aborts: execute
\* always returns a success or an error, and a CreateTokens in the initial
\* phase whose amount added to the receiver's balance exceeds the token
\* range returns an error and leaves the accounts unchanged.
C4_NoWrapNoAbort ==
    ExecDone =>
        /\ last.err.kind # "Panic"
        /\ ~aborted
        /\ (/\ last.tx.record.type = "CreateTokens"
            /\ last.is_initial
            /\ last.tx.record.receiver \in DOMAIN last.before
            /\ last.before[last.tx.record.receiver].tokens + last.tx.record.amount
                   > MaxTokens)
           => (Failed(last.err) /\ accounts = last.before)

\* C5 - Transfer arithmetic safety: when sender and receiver exist, a
\* TransferTokens whose amount exceeds the sender's balance or whose amount
\* added to the receiver's balance exceeds the token range fails with
\* ArithmeticFault and leaves every account unchanged.
C5_TransferSafe ==
    (/\ ExecDone
     /\ last.tx.record.type = "TransferTokens"
     /\ last.tx.from \in DOMAIN last.before
     /\ last.tx.record.to \in DOMAIN last.before
     /\ \/ last.tx.record.amount > last.before[last.tx.from].tokens
        \/ last.before[last.tx.record.to].tokens + last.tx.record.amount > MaxTokens)
    => /\ last.err.kind = "ArithmeticFault"
       /\ accounts = last.before

\* A transfer the sender can afford was rejected because the receiver's
\* balance would leave the token range.
C5_Witness ==
    /\ ExecDone
    /\ last.err.kind = "ArithmeticFault"
    /\ last.tx.from # last.tx.record.to
    /\ last.tx.record.amount <= last.before[last.tx.from].tokens
    /\ last.before[last.tx.record.to].tokens + last.tx.record.amount > MaxTokens
    /\ accounts = last.before

\* C6 - Tamper detection: after the record of one transaction of stored
\* block k of a valid chain is changed in place, verify_own_hash is false
\* for block k and check_validity fails with StoredHashMismatch, stopping
\* at block k and printing its 1-based number.
C6_TamperDetected ==
    (last.op = "tamper" /\ check_validity(last.blocks).kind = "Ok") =>
        /\ ~verify_own_hash(blocks[last.k])
        /\ check_validity(blocks).kind = "StoredHashMismatch"
        /\ check_validity(blocks).at = last.k - 1
        /\ check_validity(blocks).block = last.k

\* The second block of a two-block chain was tampered with.
C6_Witness ==
    /\ last.op = "tamper"
    /\ last.k = 2
    /\ check_validity(last.blocks).kind = "Ok"
    /\ blocks[2].transactions # last.blocks[2].transactions
    /\ blocks[2].hash = last.blocks[2].hash

\* C7 - Tamper-and-rehash propagation: after a record of stored block k is
\* changed in place and update_hash is called on block k, and block k has a
\* successor, block k verifies again and check_validity fails with
\* BrokenLink at the successor (block_num = k, 0-based), never with
\* StoredHashMismatch.
C7_RehashBreaksLink ==
    (/\ last.op = "update_hash"
     /\ last.tampered = last.k
     /\ last.k < Len(blocks))
    => /\ verify_own_hash(blocks[last.k])
       /\ blocks[last.k + 1].prev_hash # blocks[last.k].hash
       /\ check_validity(blocks).kind = "BrokenLink"
       /\ check_validity(blocks).at = last.k

\* The first block of a two-block chain was tampered with and rehashed.
C7_Witness ==
    /\ last.op = "update_hash"
    /\ last.tampered = 1
    /\ last.k = 1
    /\ Len(blocks) = 2
    /\ check_validity(last.blocks).kind = "StoredHashMismatch"
    /\ check_validity(blocks).kind = "BrokenLink"

\* C8 - Initial-phase flag: every execute call of one append_block gets
\* is_initial = (the chain was empty before the call); a transaction whose
\* sender does not exist passes the sender check when the chain was empty
\* and fails it with UnknownSender when the chain was not.
C8_InitialFlag ==
    AppendDone =>
        \A i \in 1..Len(last.calls) :
            LET c == last.calls[i] IN
            /\ c.tx = last.block.transactions[i]
            /\ c.is_initial = (Len(last.blocks) = 0)
            /\ (c.tx.from \notin DOMAIN c.before =>
                   IF Len(last.blocks) = 0
                   THEN c.err # SenderCheckErr
                   ELSE c.err = SenderCheckErr)

\* On a non-empty chain the second transaction of a block came from a
\* sender that does not exist and was no transfer.
C8_Witness ==
    /\ AppendDone
    /\ Len(last.blocks) >= 1
    /\ Len(last.calls) = 2
    /\ last.calls[2].tx.from \notin DOMAIN last.calls[2].before
    /\ last.calls[2].tx.record.type # "TransferTokens"
    /\ last.calls[2].err = SenderCheckErr

\* C9 - Minting is confined to genesis: a CreateTokens that passed the
\* sender check fails with NotInitialPhase when is_initial is false, fails
\* with UnknownReceiver when is_initial is true and the receiver is absent,
\* and otherwise succeeds and increases exactly the receiver's balance by
\* the amount.
C9_MintOnlyAtGenesis ==
    (/\ ExecDone
     /\ last.tx.record.type = "CreateTokens"
     /\ (last.tx.from \in DOMAIN last.before \/ last.is_initial))
    => IF ~last.is_initial
       THEN last.err.kind = "NotInitialPhase" /\ accounts = last.before
       ELSE IF last.tx.record.receiver \notin DOMAIN last.before
       THEN last.err.kind = "UnknownReceiver" /\ accounts = last.before
       ELSE /\ last.err = NoErr
            /\ accounts = [last.before EXCEPT ![last.tx.record.receiver].tokens =
                                                  @ + last.tx.record.amount]

\* C10 - Ordered, short-circuiting admission checks: append_block reports
\* HashMismatch when the stored fingerprint is absent or wrong, else
\* BrokenLink when prev_hash is not the last stored fingerprint (None for
\* the empty chain), else EmptyBlock when the block has no transaction; in
\* these cases nothing is executed and neither blocks nor accounts change.
C10_OrderedChecks ==
    AppendDone =>
        LET b == last.block
            bs == last.blocks
            kind == last.result.kind
            hash_ok == /\ is_some(b.hash)
                       /\ unwrap(b.hash) = byte_vector_to_string(Block_calculate_hash(b))
            link_ok == IF Len(bs) = 0 THEN b.prev_hash = None
                       ELSE b.prev_hash = bs[Len(bs)].hash
            untouched == /\ blocks = bs
                         /\ accounts = last.accounts
                         /\ last.calls = <<>>
        IN /\ (~hash_ok => kind = "HashMismatch" /\ untouched)
           /\ (hash_ok /\ ~link_ok => kind = "BrokenLink" /\ untouched)
           /\ (hash_ok /\ link_ok /\ Len(b.transactions) = 0 =>
                  kind = "EmptyBlock" /\ untouched)
           /\ (hash_ok /\ link_ok /\ Len(b.transactions) > 0 =>
                  /\ kind \in {"Ok", "TransactionFailed", "Panic"}
                  /\ last.calls # <<>>)

\* A block with neither a fingerprint nor the right link was rejected with
\* HashMismatch.
C10_Witness ==
    /\ AppendDone
    /\ last.result.kind = "HashMismatch"
    /\ last.block.prev_hash # get_last_block_hash(last.blocks)
    /\ Len(last.blocks) >= 1

\* C11 - Per-transaction failure atomicity: whenever execute returns an
\* error, for any world state, any is_initial and any transaction, the
\* world state after the call equals the world state before it.
C11_FailureLeavesState ==
    (ExecDone /\ Failed(last.err)) => accounts = last.before

\* A transfer between two existing accounts failed because the sender
\* could not afford it, although the receiver had room for the amount.
C11_Witness ==
    /\ ExecDone
    /\ last.err.kind = "ArithmeticFault"
    /\ last.tx.from # last.tx.record.to
    /\ last.tx.record.amount > last.before[last.tx.from].tokens
    /\ last.before[last.tx.record.to].tokens + last.tx.record.amount <= MaxTokens
    /\ accounts = last.before

\* C12 - Accounts are permanent: an accepted block leaves every earlier
\* account id in place and a rejected block leaves the accounts unchanged;
\* create_account on an id already present fails with AccountExists and
\* leaves the world state unchanged, and on a new id adds exactly that id
\* with balance 0, an empty store and the User role.
C12_AccountsPermanent ==
    AppendDone =>
        /\ DOMAIN last.accounts \subseteq DOMAIN accounts
        /\ (last.result.kind \notin {"Ok", "Panic"} => accounts = last.accounts)
        /\ \A i \in 1..Len(last.calls) :
              LET c == last.calls[i]
                  id == c.tx.record.account
              IN (c.tx.record.type = "CreateUserAccount" /\ c.err # SenderCheckErr) =>
                    IF id \in DOMAIN c.before
                    THEN /\ c.err.kind = "AccountExists"
                         /\ c.after = c.before
                    ELSE /\ c.err = NoErr
                         /\ DOMAIN c.after = DOMAIN c.before \cup {id}
                         /\ c.after[id] = [tokens |-> 0, acc_type |-> "User",
                                           store |-> <<>>]
                         /\ \A a \in DOMAIN c.before : c.after[a] = c.before[a]

\* On a non-empty chain a block tried to create an account that exists and
\* holds tokens; it was rejected with AccountExists and the balance stayed.
C12_Witness ==
    /\ AppendDone
    /\ Len(last.blocks) >= 1
    /\ last.result.kind = "TransactionFailed"
    /\ last.result.cause.kind = "AccountExists"
    /\ LET c == last.calls[Len(last.calls)] IN
          /\ c.before[c.tx.record.account].tokens > 0
          /\ accounts[c.tx.record.account] = c.before[c.tx.record.account]

\* Same block: a block holding
\* the same TransferTokens of amount a twice, with the same sender and the
\* same nonce, with a correct hash and link, from a sender holding at least
\* 2a to another account with room for 2a, is accepted; both transfers are executed and the sender is
\* debited by 2a in total.
C13_ReplaySameBlock ==
    (/\ AppendDone
     /\ verify_own_hash(last.block)
     /\ last.block.prev_hash = get_last_block_hash(last.blocks)
     /\ Len(last.block.transactions) = 2
     /\ LET t == last.block.transactions[1]
            u == last.block.transactions[2]
        IN /\ t.from = u.from /\ t.nonce = u.nonce /\ t.record = u.record
           /\ t.record.type = "TransferTokens"
           /\ t.from # t.record.to
           /\ {t.from, t.record.to} \subseteq DOMAIN last.accounts
           /\ last.accounts[t.from].tokens >= 2 * t.record.amount
           /\ last.accounts[t.record.to].tokens + 2 * t.record.amount <= MaxTokens)
    => LET t == last.block.transactions[1] IN
       /\ last.result.kind = "Ok"
       /\ Len(last.calls) = 2
       /\ last.calls[1].err = NoErr /\ last.calls[2].err = NoErr
       /\ blocks = Append(last.blocks, last.block)
       /\ accounts[t.from].tokens =
              last.accounts[t.from].tokens - 2 * t.record.amount
       /\ accounts[t.record.to].tokens =
              last.accounts[t.record.to].tokens + 2 * t.record.amount

\* Different blocks: a TransferTokens whose sender, nonce and record
\* already occur in a transaction of an accepted block is executed again
\* and takes effect whenever the balances allow it.
ReplayedAcrossBlocks(t) ==
    \E k \in 1..Len(last.blocks) :
        \E j \in 1..Len(last.blocks[k].transactions) :
            LET u == last.blocks[k].transactions[j] IN
            u.from = t.from /\ u.nonce = t.nonce /\ u.record = t.record

C13_ReplayAcrossBlocks ==
    AppendDone =>
        \A i \in 1..Len(last.calls) :
            LET c == last.calls[i]
                t == c.tx
            IN (/\ t.record.type = "TransferTokens"
                /\ ReplayedAcrossBlocks(t)
                /\ t.from # t.record.to
                /\ {t.from, t.record.to} \subseteq DOMAIN c.before
                /\ c.before[t.from].tokens >= t.record.amount
                /\ c.before[t.record.to].tokens + t.record.amount <= MaxTokens)
               => /\ c.err = NoErr
                  /\ c.after[t.from].tokens =
                         c.before[t.from].tokens - t.record.amount
                  /\ c.after[t.record.to].tokens =
                         c.before[t.record.to].tokens + t.record.amount

\* C13 - Replay-protection gap: nonces are never checked.  Two transactions
\* with the same sender, nonce and record, in one block or in different
\* blocks, are both executed and both take effect when each is otherwise
\* valid; two identical transfers of a debit the sender by 2a in total.
C13_ReplayGap == C13_ReplaySameBlock /\ C13_ReplayAcrossBlocks

\* The transfer of the genesis block was accepted a second time in block 1.
C13_WitnessAcrossBlocks ==
    /\ AppendDone
    /\ last.result.kind = "Ok"
    /\ Len(blocks) = 2
    /\ \E i \in 1..Len(last.calls) :
          /\ last.calls[i].tx.record.type = "TransferTokens"
          /\ ReplayedAcrossBlocks(last.calls[i].tx)
          /\ last.calls[i].tx = blocks[1].transactions[4]

\* A block with two identical transfers was accepted and debited the
\* sender twice.
C13_Witness ==
    /\ AppendDone
    /\ last.result.kind = "Ok"
    /\ Len(last.block.transactions) = 2
    /\ last.block.transactions[1] = last.block.transactions[2]
    /\ last.block.transactions[1].record.type = "TransferTokens"
    /\ last.block.transactions[1].from # last.block.transactions[1].record.to
    /\ accounts[last.block.transactions[1].from].tokens =
           last.accounts[last.block.transactions[1].from].tokens
             - 2 * last.block.transactions[1].record.amount

\* Executing the transactions of one block in order, from transaction j on.
RECURSIVE replay_txs(_, _, _, _)
replay_txs(txs, j, ws, is_initial) ==
    IF j > Len(txs) THEN ws
    ELSE replay_txs(txs, j + 1, execute(txs[j], ws, is_initial).ws, is_initial)

\* Executing every transaction of the blocks k.. of a chain in chain order,
\* with is_initial true for the first block only.
RECURSIVE Replay(_, _, _)
Replay(bs, k, ws) ==
    IF k > Len(bs) THEN ws
    ELSE Replay(bs, k + 1, replay_txs(bs[k].transactions, 1, ws, k = 1))

\* C14 - World state equals replay: in every state reached by append_block
\* calls the account mapping equals the result of executing, from the empty
\* mapping, every transaction of every accepted block in chain order, with
\* is_initial true for block 0 only; rejected blocks contribute nothing.
C14_WorldStateIsReplay ==
    ~aborted => accounts = Replay(blocks, 1, <<>>)

\* A block was rejected at its second transaction, after its first one had
\* been executed, on a chain that holds an accepted block.
C14_Witness ==
    /\ AppendDone
    /\ last.result.kind = "TransactionFailed"
    /\ last.result.index = 2
    /\ Len(blocks) = 1
    /\ last.calls[1].after # last.calls[1].before
    /\ accounts # <<>>
    /\ accounts = Replay(blocks, 1, <<>>)

\* The outcome C15 states for a TransferTokens that reached its branch of
\* execute (the sender check passed).
TransferOutcome ==
    LET t == last.tx
        to == t.record.to
        pre == last.before
    IN  IF to \notin DOMAIN pre
        THEN last.err = Err("UnknownReceiver", "3242342380") /\ accounts = pre
        ELSE IF t.from \notin DOMAIN pre
        THEN last.err = Err("UnknownSender", "23423923") /\ accounts = pre
        ELSE /\ last.err = NoErr <=>
                   /\ is_some(checked_add(pre[to].tokens, t.record.amount))
                   /\ is_some(checked_sub(pre[t.from].tokens, t.record.amount))
             /\ last.err = NoErr =>
                   /\ accounts[t.from].tokens = pre[t.from].tokens - t.record.amount
                   /\ accounts[to].tokens = pre[to].tokens + t.record.amount

\* C15 - TransferTokens existence preconditions: executing
\* TransferTokens{to, amount} fails with UnknownReceiver when the to account
\* is absent (also when both accounts are absent), fails with UnknownSender
\* when the from account is absent, even when is_initial is true, and
\* succeeds only when both accounts exist and both checked computations
\* succeed; then the sender's balance decreases by amount and the
\* receiver's balance increases by amount.
C15_TransferPreconditions ==
    (/\ ExecDone
     /\ last.tx.record.type = "TransferTokens"
     /\ last.err # SenderCheckErr)
    => TransferOutcome

\* The same statement for transfers between two different accounts.
C15_DistinctAccounts ==
    (/\ ExecDone
     /\ last.tx.record.type = "TransferTokens"
     /\ last.err # SenderCheckErr
     /\ last.tx.from # last.tx.record.to)
    => TransferOutcome

\* The violations of the block at position i (0-based) of a chain.
HashViolated(bs, i) ==
    \/ ~is_some(bs[i + 1].hash)
    \/ bs[i + 1].hash
         # Some(byte_vector_to_string(Block_calculate_hash(bs[i + 1])))

LinkViolated(bs, i) ==
    IF i = 0 THEN bs[1].prev_hash # None
    ELSE bs[i + 1].prev_hash # bs[i].hash

SignedAt(bs, i) ==
    {j \in 1..Len(bs[i + 1].transactions) :
        bs[i + 1].transactions[j].signature # None}

ViolatedBlocks(bs) ==
    {i \in 0..(Len(bs) - 1) :
        HashViolated(bs, i) \/ LinkViolated(bs, i) \/ SignedAt(bs, i) # {}}

Least(S) == CHOOSE x \in S : \A y \in S : x <= y

AuditDone == last.op = "check_validity"

\* C16 - check_validity is read-only and fail-fast in a fixed order: it
\* changes neither blocks nor accounts; it reports the violation of the
\* lowest violated block, and within that block the stored fingerprint
\* before the link before the signatures of the transactions in order.
C16_ReadOnlyFailFast ==
    AuditDone =>
        /\ blocks = last.blocks
        /\ accounts = last.accounts
        /\ IF ViolatedBlocks(blocks) = {} THEN last.verdict.kind = "Ok"
           ELSE LET i == Least(ViolatedBlocks(blocks)) IN
                /\ last.verdict.at = i
                /\ IF HashViolated(blocks, i)
                   THEN last.verdict.kind = "StoredHashMismatch"
                   ELSE IF LinkViolated(blocks, i)
                   THEN last.verdict.kind =
                            IF i = 0 THEN "GenesisHasParent" ELSE "BrokenLink"
                   ELSE /\ last.verdict.kind = "InvalidSignature"
                        /\ last.verdict.tx = Least(SignedAt(blocks, i))

\* Block 0 has a link and a signature violation, block 1 a fingerprint
\* violation; the link violation of block 0 is the one reported.
C16_Witness ==
    /\ AuditDone
    /\ Len(blocks) = 2
    /\ ~HashViolated(blocks, 0)
    /\ LinkViolated(blocks, 0)
    /\ SignedAt(blocks, 0) # {}
    /\ HashViolated(blocks, 1)
    /\ last.verdict.kind = "GenesisHasParent"
    /\ last.verdict.at = 0

\* C17 - BrokenLink report accuracy: when check_validity stops at a block
\* at position i > 0 whose prev_hash differs from the stored fingerprint
\* of block i - 1, also when that prev_hash is None, the BrokenLink report
\* names block i by the convention of the other reports (i + 1), gives the
\* stored fingerprint of block i - 1 as the expected value and the block's
\* own prev_hash as the actual value.
C17_BrokenLinkReport ==
    (/\ AuditDone
     /\ ViolatedBlocks(blocks) # {}
     /\ Least(ViolatedBlocks(blocks)) > 0
     /\ ~HashViolated(blocks, Least(ViolatedBlocks(blocks)))
     /\ LinkViolated(blocks, Least(ViolatedBlocks(blocks))))
    => LET i == Least(ViolatedBlocks(blocks)) IN
       /\ last.verdict.kind = "BrokenLink"
       /\ last.verdict.block = i + 1
       /\ last.verdict.expected = blocks[i].hash
       /\ last.verdict.actual = blocks[i + 1].prev_hash

\* The part of C17 that the code meets: the kind of the report.
C17_BrokenLinkKind ==
    (/\ AuditDone
     /\ ViolatedBlocks(blocks) # {}
     /\ Least(ViolatedBlocks(blocks)) > 0
     /\ ~HashViolated(blocks, Least(ViolatedBlocks(blocks)))
     /\ LinkViolated(blocks, Least(ViolatedBlocks(blocks))))
    => /\ last.verdict.kind = "BrokenLink"
       /\ last.verdict.at = Least(ViolatedBlocks(blocks))

\* The positions <<block, transaction>> (1-based, as the report numbers
\* them) of the transactions of a chain that carry a signature.
SignedPositions(bs) ==
    UNION {{<<k, j>> : j \in {i \in 1..Len(bs[k].transactions) :
                                  bs[k].transactions[i].signature # None}} :
             k \in 1..Len(bs)}

FirstSigned(bs) ==
    CHOOSE p \in SignedPositions(bs) :
        \A q \in SignedPositions(bs) :
            p[1] < q[1] \/ (p[1] = q[1] /\ p[2] <= q[2])

\* The submitted block with every signature removed.
Unsigned(block) ==
    [block EXCEPT !.transactions =
        [j \in 1..Len(block.transactions) |->
            [block.transactions[j] EXCEPT !.signature = None]]]

\* C18 - Signature handling is split between validity checking and
\* admission: on a chain built by append_block, check_validity fails with
\* InvalidSignature{block, transaction} for the first transaction that
\* carries a signature and succeeds when no transaction carries one, while
\* the outcome of append_block does not depend on the signatures of the
\* submitted block.
C18_SignatureSplit ==
    /\ IF SignedPositions(blocks) = {}
       THEN check_validity(blocks).kind = "Ok"
       ELSE /\ check_validity(blocks).kind = "InvalidSignature"
            /\ check_validity(blocks).block = FirstSigned(blocks)[1]
            /\ check_validity(blocks).tx = FirstSigned(blocks)[2]
    /\ AppendDone =>
          LET out == append_block_fn(last.blocks, last.accounts,
                                     Unsigned(last.block))
          IN /\ out.result = last.result
             /\ out.calls = [i \in 1..Len(last.calls) |->
                    [last.calls[i] EXCEPT !.tx.signature = None]]
             /\ out.result.kind # "Panic" =>
                    /\ out.accounts = accounts
                    /\ Len(out.blocks) = Len(blocks)

\* A block holding a signed transaction was accepted onto a chain that
\* check_validity accepted, and check_validity now fails.
C18_Witness ==
    /\ AppendDone
    /\ last.result.kind = "Ok"
    /\ check_validity(last.blocks).kind = "Ok"
    /\ SignedPositions(<<last.block>>) # {}
    /\ check_validity(blocks).kind = "InvalidSignature"
    /\ check_validity(blocks).block = 2

\* A stored fingerprint exists and equals the fingerprint recomputed from
\* (transactions in order, prev_hash, nonce).
HashCurrent(block) ==
    /\ block.hash # None
    /\ block.hash[1] =
          byte_vector_to_string(
              Blake2b(<<[i \in 1..Len(block.transactions) |->
                            Transaction_calculate_hash(block.transactions[i])],
                        <<block.prev_hash, block.nonce>>>>))

\* C19 - Fingerprint caching round-trip: verify_own_hash() is true exactly
\* when a stored fingerprint exists and equals the recomputed one; right
\* after add_transaction, set_nonce or update_hash it is true; a block
\* fresh from Block::new has no stored fingerprint, verify_own_hash() is
\* false for it and append_block rejects it with HashMismatch.
C19_FingerprintRoundTrip ==
    /\ \A k \in 1..Len(blocks) :
          verify_own_hash(blocks[k]) <=> HashCurrent(blocks[k])
    /\ is_some(cur) => (verify_own_hash(unwrap(cur)) <=> HashCurrent(unwrap(cur)))
    /\ last.op \in {"add_transaction", "set_nonce"} =>
          verify_own_hash(unwrap(cur))
    /\ last.op = "update_hash" => verify_own_hash(blocks[last.k])
    /\ last.op = "Block::new" =>
          /\ unwrap(cur).hash = None
          /\ ~verify_own_hash(unwrap(cur))
    /\ (AppendDone /\ last.block.hash = None) =>
          /\ last.result.kind = "HashMismatch"
          /\ blocks = last.blocks
          /\ accounts = last.accounts

\* A stored block whose record was replaced failed verify_own_hash() and
\* passes it after update_hash().
C19_Witness ==
    /\ last.op = "update_hash"
    /\ last.tampered = last.k
    /\ ~verify_own_hash(last.blocks[last.k])
    /\ verify_own_hash(blocks[last.k])
    /\ blocks[last.k].transactions = last.blocks[last.k].transactions

\* A block fresh from Block::new was submitted and rejected.
C19_WitnessFresh ==
    /\ AppendDone
    /\ last.block.hash = None
    /\ last.result.kind = "HashMismatch"

HoldsStoreChange(block) ==
    \E j \in 1..Len(block.transactions) :
        block.transactions[j].record.type = "ChangeStoreValue"

\* Every executed ChangeStoreValue that passed the sender check failed with
\* UnsupportedTransactionType and changed nothing.
StoreChangeFails ==
    AppendDone =>
        \A i \in 1..Len(last.calls) :
            (/\ last.calls[i].tx.record.type = "ChangeStoreValue"
             /\ last.calls[i].err # SenderCheckErr)
            => /\ last.calls[i].err = Err("UnsupportedTransactionType", "487289724389")
               /\ last.calls[i].after = last.calls[i].before

StoresEmpty == \A id \in DOMAIN accounts : accounts[id].store = <<>>

RECURSIVE SumTokens(_, _)
SumTokens(ws, ids) ==
    IF ids = {} THEN 0
    ELSE LET id == CHOOSE x \in ids : TRUE
         IN ws[id].tokens + SumTokens(ws, ids \ {id})

TotalSupply(ws) == SumTokens(ws, DOMAIN ws)

\* C21 - Token conservation: every successfully executed
\* TransferTokens{to, amount}, also when to = from, leaves the sum of all
\* account balances unchanged, and a transfer from an account to itself
\* leaves that account's balance unchanged.
C21_TokenConservation ==
    (/\ ExecDone
     /\ last.tx.record.type = "TransferTokens"
     /\ last.err = NoErr)
    => /\ TotalSupply(accounts) = TotalSupply(last.before)
       /\ last.tx.record.to = last.tx.from =>
              accounts[last.tx.from].tokens = last.before[last.tx.from].tokens

\* The same statement for transfers between two different accounts.
C21_DistinctAccounts ==
    (/\ ExecDone
     /\ last.tx.record.type = "TransferTokens"
     /\ last.err = NoErr
     /\ last.tx.record.to # last.tx.from)
    => TotalSupply(accounts) = TotalSupply(last.before)

\* The consequence for blocks: a block accepted onto a non-empty chain
\* leaves the total supply as it was.
C21_BlockConservation ==
    (AppendDone /\ last.result.kind = "Ok" /\ Len(last.blocks) >= 1)
    => TotalSupply(accounts) = TotalSupply(last.accounts)

\* A record of the last stored block was replaced in place and the
\* block's fingerprint was then recomputed with update_hash().
LastBlockRewritten ==
    /\ last.op = "update_hash"
    /\ last.tampered = last.k
    /\ last.k = Len(blocks)

\* C22 - Limit of tamper detection: check_validity compares content with
\* stored fingerprints and fingerprints with successor links only; when a
\* record of the last block of a valid chain is changed in place and that
\* block's fingerprint is recomputed with update_hash(), check_validity
\* still returns success, although the account mapping no longer equals
\* the replay of the stored blocks.
C22_LastBlockUndetected ==
    LastBlockRewritten =>
        /\ check_validity(blocks).kind = "Ok"
        /\ accounts # Replay(blocks, 1, <<>>)

\* C22 as amended - check_validity compares content with stored
\* fingerprints and fingerprints with successor links only: a rewritten
\* and rehashed block that has a successor breaks the successor's link,
\* but when a record of the last block of a valid chain is changed in
\* place and that block's fingerprint is recomputed, check_validity still
\* returns success, while the account mapping stays the replay of the
\* blocks as they were before the change.
C22_LastBlockRewriteAccepted ==
    /\ LastBlockRewritten =>
          /\ check_validity(last.original).kind = "Ok"
          /\ check_validity(blocks).kind = "Ok"
          /\ accounts = Replay(last.original, 1, <<>>)
    /\ (/\ last.op = "update_hash"
        /\ last.tampered = last.k
        /\ last.k < Len(blocks))
       => /\ check_validity(blocks).kind = "BrokenLink"
          /\ check_validity(blocks).at = last.k

\* The last of two stored blocks was rewritten; check_validity succeeds
\* and the accounts differ from the replay of the stored blocks.
C22_Witness ==
    /\ LastBlockRewritten
    /\ Len(blocks) = 2
    /\ check_validity(blocks) = ValidVerdict
    /\ accounts # Replay(blocks, 1, <<>>)

====
